---------------------------- MODULE Spec2Model ----------------------------
(***************************************************************************)
(* A model of the STS-get server: the per-connection command dispatcher   *)
(* (onConnData), the three-stage policy pipeline (getTxt, validateTxt,    *)
(* getPolicy) and the response writer (lib.send, lib.sendError).          *)
(*                                                                         *)
(* The repository holds two builds of the server that the text refers to: *)
(* src/server.js and the later src/unnamed/part_002 (per-command stats,   *)
(* a STATS command, a reworked DNS and HTTP callback).  The variable      *)
(* build selects which of the two runs.                                    *)
(*                                                                         *)
(* A string is a tuple of text fragments.  Every fragment the code looks   *)
(* into (command lines, host names, TXT records) is a single character;   *)
(* literal message texts that are only copied are one fragment.           *)
(***************************************************************************)
EXTENDS Integers, Sequences, FiniteSets, TLC

VARIABLES build, connCounter, conns, events, reqs, stats, uncaught, logger

vars == <<build, connCounter, conns, events, reqs, stats, uncaught, logger>>

\* ------------------------------------------------------------------ bounds
MaxConns == 2
MaxEvents == 2
MaxLineEvents == 1
MaxErrors == 1
MaxPipeConns == 1
MaxPipeEvents == 1
MaxTxtTokens == 2
MaxCmdEvents == 2
MaxIdConns == 3
MaxIsoEvents == 2

Builds == {"server.js", "part_002"}

\* ------------------------------------------------------- string primitives
CR == "\r"
LF == "\n"
SP == " "
TAB == "\t"

\* String.prototype.trim() strips these from both ends
WhiteSpace == {SP, TAB, CR, LF}

Lower == <<"a","b","c","d","e","f","g","h","i","j","k","l","m",
           "n","o","p","q","r","s","t","u","v","w","x","y","z">>
Upper == <<"A","B","C","D","E","F","G","H","I","J","K","L","M",
           "N","O","P","Q","R","S","T","U","V","W","X","Y","Z">>
Digits == {"0","1","2","3","4","5","6","7","8","9"}
Range(f) == {f[i] : i \in DOMAIN f}
Letters == Range(Lower) \cup Range(Upper)

upperChar(c) ==
  IF c \in Range(Lower) THEN Upper[CHOOSE i \in DOMAIN Lower : Lower[i] = c] ELSE c
lowerChar(c) ==
  IF c \in Range(Upper) THEN Lower[CHOOSE i \in DOMAIN Upper : Upper[i] = c] ELSE c

\* a conversion that leaves the letters as they are
toUpperCase_asIs(s) == s

toUpperCase(s) == [i \in DOMAIN s |-> upperChar(s[i])]
toLowerCase(s) == [i \in DOMAIN s |-> lowerChar(s[i])]

RECURSIVE trimStart(_)
trimStart(s) ==
  IF s # <<>> /\ Head(s) \in WhiteSpace THEN trimStart(Tail(s)) ELSE s

RECURSIVE trimEnd(_)
trimEnd(s) ==
  IF s # <<>> /\ s[Len(s)] \in WhiteSpace THEN trimEnd(SubSeq(s, 1, Len(s) - 1)) ELSE s

\* a dispatcher that strips leading white space only
trim_leadingOnly(s) == trimStart(s)

trim(s) == trimEnd(trimStart(s))

\* String.prototype.split(sep) for a one-character separator: the empty
\* string yields one empty token, adjacent separators an empty token.
RECURSIVE split(_, _)
split(s, sep) ==
  IF s = <<>> THEN << <<>> >>
  ELSE LET rest == split(Tail(s), sep) IN
       IF Head(s) = sep THEN << <<>> >> \o rest
       ELSE << <<Head(s)>> \o Head(rest) >> \o Tail(rest)

\* Array.prototype.join('')
RECURSIVE join(_)
join(a) == IF a = <<>> THEN <<>> ELSE Head(a) \o join(Tail(a))

\* tmp.replace(/\s/g, '')
RECURSIVE stripSpace(_)
stripSpace(s) ==
  IF s = <<>> THEN <<>>
  ELSE IF Head(s) \in WhiteSpace THEN stripSpace(Tail(s))
       ELSE <<Head(s)>> \o stripSpace(Tail(s))

\* ------------------------------------------------------------------ isFQDN
\* validator's isFQDN under the options the dispatcher passes:
\* require_tld: true, allow_underscores: false, allow_trailing_dot: false
HostChars == Letters \cup Digits \cup {"-"}

tldOk(t) ==
  \/ Len(t) >= 2 /\ \A i \in DOMAIN t : t[i] \in Letters
  \/ /\ Len(t) >= 4
     /\ lowerChar(t[1]) = "x" /\ lowerChar(t[2]) = "n"
     /\ \A i \in 3..Len(t) : t[i] \in HostChars

labelOk(p) ==
  /\ p # <<>>
  /\ \A i \in DOMAIN p : p[i] \in HostChars
  /\ p[1] # "-"
  /\ p[Len(p)] # "-"

isFQDN(str) ==
  LET parts == split(str, ".")
      tld   == parts[Len(parts)]
      rest  == SubSeq(parts, 1, Len(parts) - 1)
  IN /\ rest # <<>>
     /\ tldOk(tld)
     /\ \A i \in DOMAIN rest : labelOk(rest[i])

\* --------------------------------------------------------------- lib.js
digitChar(d) == CHOOSE c \in Digits : c = ToString(d)

RECURSIVE digitsOf(_)
digitsOf(m) ==
  IF m < 10 THEN <<digitChar(m)>> ELSE digitsOf(m \div 10) \o <<digitChar(m % 10)>>

\* ('00000000000' + m).slice(-(width || 2))
pad(m, width) ==
  LET s == <<"0","0","0","0","0","0","0","0","0","0","0">> \o digitsOf(m)
      w == IF width = 0 THEN 2 ELSE width
  IN SubSeq(s, IF Len(s) > w THEN Len(s) - w + 1 ELSE 1, Len(s))

IdWidth == 8

nextId == pad(connCounter, IdWidth)

\* conn.write(msg): the write is handed to the socket.  ev names the data
\* event the write answers (0: none); afterEnd records that conn.end() had
\* already been called when the write was made.
\* a write that is put in front of the replies to later data events
connWrite_inCommandOrder(cn, ev, msg) ==
  LET w     == cn.writes
      later == {i \in DOMAIN w : ev > 0 /\ w[i].ev > ev}
      k     == IF later = {} THEN Len(w) + 1
               ELSE CHOOSE i \in later : \A j \in later : i <= j
  IN [cn EXCEPT !.writes = SubSeq(w, 1, k - 1)
                           \o <<[ev |-> ev, msg |-> msg, afterEnd |-> cn.ended]>>
                           \o SubSeq(w, k, Len(w))]

connWrite(cn, ev, msg) ==
  [cn EXCEPT !.writes = Append(@, [ev |-> ev, msg |-> msg, afterEnd |-> cn.ended])]

\* conn.end(msg): write msg, then half-close; destroyed is set only later,
\* by the socket's close (onConnClose)
connEnd(cn, ev, msg) == [connWrite(cn, ev, msg) EXCEPT !.ended = TRUE]

\* a send that does not look at conn.destroyed
send_unguarded(cn, ev, msg) == connWrite(cn, ev, msg)

send(cn, ev, msg) ==
  IF ~cn.destroyed THEN connWrite(cn, ev, msg) ELSE cn

sendError(cn, ev, msg) ==
  IF ~cn.destroyed
  THEN connWrite(cn, ev, <<"-">> \o (IF msg = <<>> THEN <<"error">> ELSE msg) \o <<CR, LF>>)
  ELSE cn

\* ------------------------------------------------------------ logger.js
\* syslog levels; a level is active when it is <= log_level
EMERG == 0
INFO  == 6
DEBUG == 7
Levels == EMERG..DEBUG

\* the logger: its level, and what the last call of log() did
\*   last.cur: log_level when log() was called
\*   last.evaluated: msg was a function and log() called it
\*   last.written: the string handed to winston (<<>>: none)
NoCall == [level |-> -1, msg |-> "none", cur |-> -1, evaluated |-> FALSE,
           written |-> <<>>]

\* LOG_LEVEL unset: 'info'
logger0 == [log_level |-> INFO, last |-> NoCall]

\* what a caller passes as msg: a string, a function that returns a string,
\* a function that returns something else, a value that is neither
Msgs == {"string", "function", "functionOther", "other"}

\* a log() that builds the message before it looks at the level
log_eager(lg, level, msg) ==
  LET isFn == msg \in {"function", "functionOther"}
      str  == msg \in {"string", "function"}
  IN [lg EXCEPT !.last =
        [level |-> level, msg |-> msg, cur |-> lg.log_level, evaluated |-> isFn,
         written |-> IF level <= lg.log_level /\ str THEN <<"message">> ELSE <<>>]]

\* log(level, msg)
log(lg, level, msg) ==
  IF level > lg.log_level
  THEN [lg EXCEPT !.last = [level |-> level, msg |-> msg, cur |-> lg.log_level,
                            evaluated |-> FALSE, written |-> <<>>]]
  ELSE
    LET isFn == msg \in {"function", "functionOther"}
        m    == IF msg = "function" THEN "string"
                ELSE IF msg = "functionOther" THEN "other"
                ELSE msg
    IN [lg EXCEPT !.last = [level |-> level, msg |-> msg, cur |-> lg.log_level,
                            evaluated |-> isFn,
                            written |-> IF m = "string" THEN <<"message">> ELSE <<>>]]

\* logLevel(lvl) with a numeric lvl
logLevel(lg, lvl) ==
  IF 0 <= lvl /\ lvl < 8 THEN [lg EXCEPT !.log_level = lvl] ELSE lg

\* some module calls logger.log / logger.logLevel
Log(level, msg) ==
  /\ logger' = log(logger, level, msg)
  /\ UNCHANGED <<build, connCounter, conns, events, reqs, stats, uncaught>>

LogLevel(lvl) ==
  /\ logger' = logLevel(logger, lvl)
  /\ logger' # logger
  /\ UNCHANGED <<build, connCounter, conns, events, reqs, stats, uncaught>>

\* ------------------------------------------------------------ the server
version == <<"0.1">>

BYE == <<"+", "BYE", CR, LF>>

cmdSTS     == <<"S","T","S">>
cmdQUIT    == <<"Q","U","I","T">>
cmdVERSION == <<"V","E","R","S","I","O","N">>
cmdSTATS   == <<"S","T","A","T","S">>

\* the counters of part_002's stats object (time.start and time.up are wall
\* clock values and are left out)
stats0 == [open |-> 0, total |-> 0, STS |-> 0, QUIT |-> 0, VERSION |-> 0,
           STATS |-> 0, bad |-> 0]

\* a counter that goes up by two
count_twice(st, k) == IF build = "part_002" THEN [st EXCEPT ![k] = @ + 2] ELSE st

count(st, k) == IF build = "part_002" THEN [st EXCEPT ![k] = @ + 1] ELSE st
uncount(st, k) == IF build = "part_002" THEN [st EXCEPT ![k] = @ - 1] ELSE st

\* JSON.stringify(stats), counters only
stringify(st) ==
  << "{\"connections\":{\"open\":", ToString(st.open), ",\"total\":", ToString(st.total),
     "},\"requests\":{\"QUIT\":", ToString(st.QUIT), ",\"STATS\":", ToString(st.STATS),
     ",\"STS\":", ToString(st.STS), ",\"VERSION\":", ToString(st.VERSION),
     ",\"bad\":", ToString(st.bad), "}}" >>

\* a tokenizer that reads the first line of the chunk only
RECURSIVE firstLine(_)
firstLine(s) ==
  IF s = <<>> \/ Head(s) \in {CR, LF} THEN <<>>
  ELSE <<Head(s)>> \o firstLine(Tail(s))

tokensOf_firstLine(data) == split(firstLine(trim(data)), SP)

tokensOf(data) == split(trim(data), SP)
cmdOf(data) == toUpperCase(tokensOf(data)[1])

\* a dispatcher that hands any first argument to the pipeline
stsBranch_noFqdnCheck(tokens) ==
  IF Len(tokens) < 2 THEN "missing" ELSE "pipeline"

\* a dispatcher that insists on exactly one argument
stsBranch_exactlyOne(tokens) ==
  IF Len(tokens) # 2 THEN "missing"
  ELSE IF ~isFQDN(tokens[2]) THEN "invalid"
  ELSE "pipeline"

\* which branch of `case 'STS'` a token list takes
stsBranch(tokens) ==
  IF Len(tokens) < 2 THEN "missing"
  ELSE IF ~isFQDN(tokens[2]) THEN "invalid"
  ELSE "pipeline"

\* a switch whose default case is the QUIT case
switchCase_unknownQuits(cmd) ==
  IF cmd = cmdSTS THEN "STS"
  ELSE IF cmd = cmdVERSION THEN "VERSION"
  ELSE IF cmd = cmdSTATS /\ build = "part_002" THEN "STATS"
  ELSE "QUIT"

\* which case of the switch a command token selects
switchCase(cmd) ==
  IF cmd = cmdSTS THEN "STS"
  ELSE IF cmd = cmdQUIT THEN "QUIT"
  ELSE IF cmd = cmdVERSION THEN "VERSION"
  ELSE IF cmd = cmdSTATS /\ build = "part_002" THEN "STATS"
  ELSE "default"

\* opts, and the state of its promise chain
\*   pc: "dns"  dns.resolveTxt is outstanding
\*       "txt"  getTxt's promise is fulfilled, validateTxt has not run yet
\*       "http" request() is outstanding
\*       "ok"   getPolicy's promise is fulfilled with body
\*       "fail" a stage's promise is rejected with err
\*       "hung" a callback returned or threw without settling its promise
\*       "done" the final then/catch handler has run
\*   settled: "ok" / "fail" once the final then / catch handler has run
\*   dnsOut: what dns.resolveTxt answered: "err", "empty", "one", "many"
\*   closedAt3: conn.destroyed was true when getPolicy was entered
\*   unhandled: the message of a rejected promise no handler is attached to
\*   escaped:   the message of an exception that left an I/O callback
\*   resp: what request() handed to its callback (NoResponse before that)
NoResponse == [err |-> <<>>, res |-> FALSE, status |-> -1, body |-> <<>>]

\* a request that keeps the first connection of the server, not its own
newOpts_firstConn(c, e, host) ==
  [conn |-> 1, ev |-> e, host |-> host, pc |-> "dns", txt_rr |-> <<>>,
   hasV |-> FALSE, hasId |-> FALSE, id |-> <<>>, err |-> <<>>, body |-> <<>>,
   dns |-> 0, http |-> 0, unhandled |-> <<>>, escaped |-> <<>>,
   settled |-> "no", dnsOut |-> "none", closedAt3 |-> FALSE, resp |-> NoResponse]

newOpts(c, e, host) ==
  [conn |-> c, ev |-> e, host |-> host, pc |-> "dns", txt_rr |-> <<>>,
   hasV |-> FALSE, hasId |-> FALSE, id |-> <<>>, err |-> <<>>, body |-> <<>>,
   dns |-> 0, http |-> 0, unhandled |-> <<>>, escaped |-> <<>>,
   settled |-> "no", dnsOut |-> "none", closedAt3 |-> FALSE, resp |-> NoResponse]

\* getTxt(opts), up to the call of dns.resolveTxt
getTxt(opts) ==
  IF opts.host = <<>>
  THEN [opts EXCEPT !.pc = "fail", !.err = <<"MISSING REQUIRED HOST">>]
  ELSE [opts EXCEPT !.pc = "dns", !.dns = @ + 1]

\* the data events of connection c whose pipeline is waiting on its HTTP GET
suspendedOnHttp(c) ==
  {reqs[r].ev : r \in {x \in DOMAIN reqs : reqs[x].conn = c /\ reqs[x].pc = "http"}}

handleConnection ==
  /\ ~uncaught
  /\ conns' = Append(conns, [id |-> nextId, ended |-> FALSE, destroyed |-> FALSE,
                             writes |-> <<>>, errs |-> 0])
  /\ connCounter' = connCounter + 1
  /\ stats' = count(count(stats, "open"), "total")
  /\ UNCHANGED <<logger, build, events, reqs, uncaught>>

onConnData(c, d) ==
  LET tokens == tokensOf(d)
      cmd    == toUpperCase(tokens[1])
      e      == Len(events) + 1
      cs     == switchCase(cmd)
  IN
  /\ ~uncaught
  /\ c \in DOMAIN conns
  /\ ~conns[c].destroyed
  /\ events' = Append(events, [conn |-> c, line |-> d, inHttp |-> suspendedOnHttp(c)])
  /\ CASE cs = "STS" ->
            /\ stats' = count(stats, "STS")
            /\ CASE stsBranch(tokens) = "missing" ->
                      /\ conns' = [conns EXCEPT ![c] = sendError(@, e, <<"HOST MISSING">>)]
                      /\ reqs' = reqs
                 [] stsBranch(tokens) = "invalid" ->
                      /\ conns' = [conns EXCEPT ![c] = sendError(@, e, <<"HOST INVALID">>)]
                      /\ reqs' = reqs
                 [] OTHER ->
                      /\ reqs' = Append(reqs, getTxt(newOpts(c, e, tokens[2])))
                      /\ conns' = conns
       [] cs = "QUIT" ->
            /\ conns' = [conns EXCEPT ![c] = connEnd(@, e, BYE)]
            /\ stats' = uncount(count(stats, "QUIT"), "open")
            /\ reqs' = reqs
       [] cs = "VERSION" ->
            /\ conns' = [conns EXCEPT ![c] = send(@, e, <<"+">> \o version \o <<CR, LF>>)]
            /\ stats' = count(stats, "VERSION")
            /\ reqs' = reqs
       [] cs = "STATS" ->
            /\ stats' = count(stats, "STATS")
            /\ conns' = [conns EXCEPT
                           ![c] = send(@, e, <<"+">> \o stringify(stats') \o <<CR, LF>>)]
            /\ reqs' = reqs
       [] OTHER ->
            /\ conns' = [conns EXCEPT ![c] = sendError(@, e, <<"UNKNOWN COMMAND">>)]
            /\ stats' = count(stats, "bad")
            /\ reqs' = reqs
  /\ UNCHANGED <<logger, build, connCounter, uncaught>>

\* the socket is torn down (the peer closed or reset, or the end() begun by
\* QUIT completed): destroyed becomes true and 'close' is emitted; the
\* handler itself only logs
onConnClose(c) ==
  /\ ~uncaught
  /\ c \in DOMAIN conns
  /\ ~conns[c].destroyed
  /\ conns' = [conns EXCEPT ![c].destroyed = TRUE]
  /\ UNCHANGED <<logger, build, connCounter, events, reqs, stats, uncaught>>

\* the 'error' events delivered so far
RECURSIVE errorsSeen(_)
errorsSeen(k) == IF k = 0 THEN 0 ELSE conns[k].errs + errorsSeen(k - 1)

\* an error handler that says +BYE whatever the state of the socket
onConnError_unguarded(c) ==
  /\ ~uncaught
  /\ c \in DOMAIN conns
  /\ errorsSeen(Len(conns)) < MaxErrors
  /\ conns' = [conns EXCEPT ![c] = [connEnd(@, 0, BYE) EXCEPT !.errs = @ + 1]]
  /\ stats' = uncount(stats, "open")
  /\ UNCHANGED <<logger, build, connCounter, events, reqs, uncaught>>

onConnError(c) ==
  /\ ~uncaught
  /\ c \in DOMAIN conns
  /\ errorsSeen(Len(conns)) < MaxErrors
  /\ IF ~conns[c].destroyed
     THEN /\ conns' = [conns EXCEPT ![c] = [connEnd(@, 0, BYE) EXCEPT !.errs = @ + 1]]
          /\ stats' = uncount(stats, "open")
     ELSE /\ conns' = [conns EXCEPT ![c].errs = @ + 1]
          /\ stats' = stats
  /\ UNCHANGED <<logger, build, connCounter, events, reqs, uncaught>>

\* ------------------------------------------------------------- stage 1
\* the message of the Error the resolver hands to the callback
dnsErrMessage(code, host) ==
  <<"queryTxt", SP, code, SP, "_mta-sts.">> \o host

\* the callback passed to dns.resolveTxt.  `return Promise.reject(...)`
\* inside the callback makes a new rejected promise that nobody handles and
\* leaves getTxt's own promise pending.
\* a callback that asks the resolver once more after a lookup error
resolveTxtCallback_retry(opts, out) ==
  IF out.err
  THEN IF opts.dns < 2
       THEN [opts EXCEPT !.pc = "dns", !.dns = @ + 1]
       ELSE [opts EXCEPT !.pc = "fail", !.err = <<"FAILED TXT LOOKUP; ", out.code>>]
  ELSE IF Len(out.data) # 1
  THEN [opts EXCEPT !.pc = "hung", !.unhandled = <<"EMPTY OR MISSING TXT RECORD">>]
  ELSE [opts EXCEPT !.pc = "txt", !.txt_rr = out.data]

resolveTxtCallback(opts, out) ==
  IF out.err
  THEN [opts EXCEPT !.pc = "fail",
                    !.err = IF build = "server.js"
                            THEN dnsErrMessage(out.code, opts.host)
                            ELSE <<"FAILED TXT LOOKUP; ", out.code>>]
  ELSE IF out.data = <<>>
  THEN [opts EXCEPT !.pc = "hung", !.unhandled = <<"EMPTY OR MISSING TXT RECORD">>]
  ELSE IF Len(out.data) # 1
  THEN [opts EXCEPT !.pc = "hung", !.unhandled = <<"EMPTY OR MISSING TXT RECORD">>]
  ELSE [opts EXCEPT !.pc = "txt", !.txt_rr = out.data]

\* ------------------------------------------------------------- stage 2
undefined == <<"<undefined>">>

stsv1 == <<"s","t","s","v","1">>

\* one pass of the for loop of validateTxt over tokens[i..]; acc carries
\* opts.v, opts.id and a TypeError thrown by the loop body
RECURSIVE parseTokens(_, _)
parseTokens(tokens, acc) ==
  IF tokens = <<>> \/ acc.thrown # <<>> THEN acc
  ELSE
    LET nv0  == split(Head(tokens), "=")
        skip == build = "part_002" /\ Len(nv0) < 2
        nv   == IF build = "part_002" /\ Len(nv0) > 2
                THEN <<nv0[1], join(Tail(nv0))>>
                ELSE nv0
        name == toLowerCase(nv[1])
        next ==
          IF skip THEN acc
          ELSE IF name = <<"v">>
          THEN IF Len(nv) < 2
               THEN [acc EXCEPT
                       !.thrown = <<"Cannot read property 'toLowerCase' of undefined">>]
               ELSE IF toLowerCase(nv[2]) = stsv1
                    THEN [acc EXCEPT !.hasV = TRUE]
                    ELSE acc
          ELSE IF name = <<"i","d">>
          THEN [acc EXCEPT !.hasId = TRUE,
                           !.id = IF Len(nv) < 2 THEN undefined ELSE nv[2]]
          ELSE acc
    IN parseTokens(Tail(tokens), next)

validateTxt(opts) ==
  IF opts.txt_rr = <<>>
  THEN [opts EXCEPT !.pc = "fail", !.err = <<"EMPTY OR MISSING TXT RECORD">>]
  ELSE
    LET tmp == join(opts.txt_rr[1]) IN
    IF tmp = <<>>
    THEN [opts EXCEPT !.pc = "fail", !.err = <<"EMPTY OR MISSING TXT RECORD">>]
    ELSE
      LET acc == parseTokens(split(stripSpace(tmp), ";"),
                             [hasV |-> opts.hasV, hasId |-> opts.hasId,
                              id |-> opts.id, thrown |-> <<>>])
          o   == [opts EXCEPT !.hasV = acc.hasV, !.hasId = acc.hasId, !.id = acc.id]
      IN IF acc.thrown # <<>>
         THEN [o EXCEPT !.pc = "fail", !.err = acc.thrown]
         ELSE IF ~acc.hasV \/ ~acc.hasId
         THEN [o EXCEPT !.pc = "fail", !.err = <<"INVALID TXT RR">>]
         ELSE o

\* ------------------------------------------------------------- stage 3
\* getPolicy(opts) up to the call of request(); `new ERROR(...)` names an
\* identifier that is not defined, so the handler throws a ReferenceError
getPolicy(opts, destroyed) ==
  IF destroyed
  THEN [opts EXCEPT !.pc = "fail", !.err = <<"ERROR is not defined">>]
  ELSE [opts EXCEPT !.pc = "http", !.http = @ + 1]

\* the callback passed to request(); out.res = FALSE stands for an empty
\* res.  In server.js `err.message` is read also when err is null: the
\* TypeError leaves the callback and the promise stays pending.
requestCallback(opts, out) ==
  IF build = "server.js"
  THEN IF out.err # <<>>
       THEN [opts EXCEPT !.pc = "fail", !.err = <<"HTTP LOOKUP FAILED; ">> \o out.err]
       ELSE IF ~out.res \/ out.body = <<>>
       THEN [opts EXCEPT !.pc = "hung",
                         !.escaped = <<"Cannot read property 'message' of null">>]
       ELSE IF out.status < 200 \/ out.status >= 300
       THEN [opts EXCEPT !.pc = "fail",
                         !.err = <<"HTTP LOOKUP FAILED; ", ToString(out.status)>>]
       ELSE [opts EXCEPT !.pc = "ok", !.body = out.body]
  ELSE IF out.err # <<>>
       THEN [opts EXCEPT !.pc = "fail", !.err = <<"HTTP GET FAILED; ">> \o out.err]
       ELSE IF ~out.res
       THEN [opts EXCEPT !.pc = "fail", !.err = <<"HTTP GET FAILED">>]
       ELSE IF out.status < 200 \/ out.status >= 300
       THEN [opts EXCEPT !.pc = "fail",
                         !.err = <<"HTTP GET FAILED; ", ToString(out.status)>>]
       ELSE [opts EXCEPT !.pc = "ok", !.body = out.body]

\* ------------------------------------------------- the final handlers
\* a success handler that sends the policy with its white space removed
onFulfilled_stripped(cn, opts) == send(cn, opts.ev, stripSpace(opts.body))

\* .then(function(str) { lib.send(conn, str); })
onFulfilled(cn, opts) == send(cn, opts.ev, opts.body)

\* .catch(function(err) { if (!conn.destroyed) lib.sendError(conn, err.message); })
onRejected(cn, opts) ==
  IF ~cn.destroyed THEN sendError(cn, opts.ev, opts.err) ELSE cn

\* ------------------------------------------------------ the environment
\* what the client may send in one data event
L_sts       == <<"S","T","S",SP,"a",".","c","o">>
L_stsCrLf   == <<"s","t","s",SP,"a",".","c","o",CR,LF>>
L_stsBare   == <<"S","T","S">>
L_stsSp     == <<"S","T","S",SP>>
L_stsSpCrLf == <<"s","t","s",SP,CR,LF>>
L_stsPadded == <<SP,TAB,"S","T","S",SP,SP,CR,LF>>
L_stsNoTld  == <<"S","T","S",SP,"a","b">>
L_stsUnder  == <<"S","T","S",SP,"a","_","b",".","c","o">>
L_stsDot    == <<"S","T","S",SP,"a",".","c","o",".">>
L_stsTwo    == <<"S","T","S",SP,"a",".","c","o",SP,"b",".","c","o">>
L_stsGap    == <<"S","T","S",SP,SP,"a",".","c","o">>
L_quit      == <<"Q","U","I","T",CR,LF>>
L_version   == <<"v","e","r","s","i","o","n",CR,LF>>
L_versionUpper == <<"V","E","R","S","I","O","N">>
L_versionMixed == <<"V","e","R","s","I","o","N",CR,LF>>
L_stats     == <<"S","T","A","T","S">>
L_empty     == <<CR,LF>>
L_foo       == <<"F","O","O",SP,"a",".","c","o">>
L_two       == <<"V","E","R","S","I","O","N",CR,LF,"Q","U","I","T",CR,LF>>

ProtoLines == {L_sts, L_stsBare, L_quit, L_version, L_stats, L_foo}

AllLines == ProtoLines \cup
  {L_stsCrLf, L_stsSp, L_stsSpCrLf, L_stsPadded, L_stsNoTld, L_stsUnder, L_stsDot,
   L_stsTwo, L_stsGap, L_empty, L_two}

\* TXT records as dns.resolveTxt returns them: each record a list of chunks
R_valid == << <<"v","=","S","T","S","v","1",";",SP>>, <<"i","d","=","1">> >>
R_noV   == << <<"i","d","=","x">> >>
R_empty == << <<>> >>

DnsOutcomes ==
  {[err |-> TRUE, code |-> "ENOTFOUND", data |-> <<>>]} \cup
  {[err |-> FALSE, code |-> "", data |-> d] :
      d \in {<<>>, <<R_valid>>, <<R_noV>>, <<R_empty>>, <<R_valid, R_valid>>}}

B_plain == <<"version: STSv1", LF, "mode: none">>
B_crlf  == <<"version: STSv1", CR, LF>>

HttpOutcomes ==
  {[err |-> <<"connect ECONNREFUSED">>, res |-> FALSE, status |-> 0, body |-> <<>>],
   [err |-> <<>>, res |-> FALSE, status |-> 0, body |-> <<>>]} \cup
  {[err |-> <<>>, res |-> TRUE, status |-> st, body |-> b] :
      st \in {199, 200, 299, 300}, b \in {<<>>, B_plain, B_crlf}}

\* the answers used where the command line is under study: a lookup error
\* or one good record, and a good policy
LineDnsOutcomes ==
  {o \in DnsOutcomes : o.err \/ o.data = <<R_valid>>}

LineHttpOutcomes ==
  {o \in HttpOutcomes : o.status = 200 /\ o.body = B_crlf}

\* ------------------------------------------------------------ the actions
\* the resolver calls back
DnsReply(r, out) ==
  /\ ~uncaught
  /\ r \in DOMAIN reqs
  /\ reqs[r].pc = "dns"
  /\ reqs' = [reqs EXCEPT ![r] =
               [resolveTxtCallback(@, out) EXCEPT
                  !.dnsOut = IF out.err THEN "err"
                             ELSE IF Len(out.data) = 0 THEN "empty"
                             ELSE IF Len(out.data) = 1 THEN "one"
                             ELSE "many"]]
  /\ UNCHANGED <<logger, build, connCounter, conns, events, stats, uncaught>>

\* the promise queue runs .then(validateTxt).then(getPolicy); a rejection of
\* either goes on to the catch handler in the same turn
RunStages(r) ==
  /\ ~uncaught
  /\ r \in DOMAIN reqs
  /\ reqs[r].pc = "txt"
  /\ LET c  == reqs[r].conn
         o1 == validateTxt(reqs[r])
         o2 == IF o1.pc = "fail" THEN o1
               ELSE [getPolicy(o1, conns[c].destroyed) EXCEPT
                       !.closedAt3 = conns[c].destroyed]
     IN IF o2.pc = "fail"
        THEN /\ conns' = [conns EXCEPT ![c] = onRejected(@, o2)]
             /\ reqs' = [reqs EXCEPT ![r] = [o2 EXCEPT !.pc = "done", !.settled = "fail"]]
        ELSE /\ reqs' = [reqs EXCEPT ![r] = o2]
             /\ conns' = conns
  /\ UNCHANGED <<logger, build, connCounter, events, stats, uncaught>>

\* the HTTP client calls back; an exception that leaves the callback reaches
\* the process: the logger's exception handler swallows it or the process
\* dies, depending on the winston release
HttpReply(r, out) ==
  /\ ~uncaught
  /\ r \in DOMAIN reqs
  /\ reqs[r].pc = "http"
  /\ reqs' = [reqs EXCEPT ![r] = [requestCallback(@, out) EXCEPT !.resp = out]]
  /\ IF reqs'[r].escaped # <<>>
     THEN uncaught' \in BOOLEAN
     ELSE uncaught' = uncaught
  /\ UNCHANGED <<logger, build, connCounter, conns, events, stats>>

\* the promise queue runs the final then / catch handler
RunHandler(r) ==
  /\ ~uncaught
  /\ r \in DOMAIN reqs
  /\ reqs[r].pc \in {"ok", "fail"}
  /\ LET c == reqs[r].conn IN
     conns' = [conns EXCEPT ![c] = IF reqs[r].pc = "ok"
                                   THEN onFulfilled(@, reqs[r])
                                   ELSE onRejected(@, reqs[r])]
  /\ reqs' = [reqs EXCEPT ![r].pc = "done", ![r].settled = reqs[r].pc]
  /\ UNCHANGED <<logger, build, connCounter, events, stats, uncaught>>

Init ==
  /\ build \in Builds
  /\ connCounter = 0
  /\ conns = <<>>
  /\ events = <<>>
  /\ reqs = <<>>
  /\ stats = stats0
  /\ uncaught = FALSE
  /\ logger = logger0

\* the events other than accept and data, with the answers the resolver and
\* the HTTP client may give
Async(dnsAnswers, httpAnswers) ==
  \/ \E c \in DOMAIN conns : onConnClose(c)
  \/ \E c \in DOMAIN conns : onConnError(c)
  \/ \E r \in DOMAIN reqs, out \in dnsAnswers : DnsReply(r, out)
  \/ \E r \in DOMAIN reqs : RunStages(r)
  \/ \E r \in DOMAIN reqs, out \in httpAnswers : HttpReply(r, out)
  \/ \E r \in DOMAIN reqs : RunHandler(r)

ClientSends ==
  \E c \in DOMAIN conns, d \in ProtoLines :
     Len(events) < MaxEvents /\ onConnData(c, d)

ClientSendsAny ==
  \E c \in DOMAIN conns, d \in AllLines :
     Len(events) < MaxLineEvents /\ onConnData(c, d)

Accept == Len(conns) < MaxConns /\ handleConnection

Next == Accept \/ Async(DnsOutcomes, HttpOutcomes) \/ ClientSends

\* one STS or QUIT command, every answer of the resolver and the HTTP client
PipeLines == {L_sts, L_quit}

ClientSendsPipe ==
  \E c \in DOMAIN conns, d \in PipeLines :
     Len(events) < MaxPipeEvents /\ onConnData(c, d)

AcceptPipe == Len(conns) < MaxPipeConns /\ handleConnection

NextPipe == AcceptPipe \/ Async(DnsOutcomes, HttpOutcomes) \/ ClientSendsPipe

\* the protocol: several commands and connections, the usual command lines
Spec == Init /\ [][Next]_vars

\* the pipeline: one command, every outcome of its two lookups
SpecPipe == Init /\ [][NextPipe]_vars

\* commands after an unknown one: two lines on a connection
CmdLines ==
  {L_foo, L_empty, L_stats, L_version, L_versionUpper, L_versionMixed, L_sts}

ClientSendsCmd ==
  \E c \in DOMAIN conns, d \in CmdLines :
     Len(events) < MaxCmdEvents /\ onConnData(c, d)

\* the first connection as handleConnection leaves it
firstConn == [id |-> pad(0, IdWidth), ended |-> FALSE, destroyed |-> FALSE,
              writes |-> <<>>, errs |-> 0]

\* the server after it has accepted one connection
InitCmd ==
  /\ build \in Builds
  /\ connCounter = 1
  /\ conns = <<firstConn>>
  /\ events = <<>>
  /\ reqs = <<>>
  /\ stats = count(count(stats0, "open"), "total")
  /\ uncaught = FALSE
  /\ logger = logger0

\* the command line parser: every shape of line on one accepted connection,
\* few commands and answers
NextLine == Async(LineDnsOutcomes, LineHttpOutcomes) \/ ClientSendsAny

SpecLine == InitCmd /\ [][NextLine]_vars

NextCmd == Async(LineDnsOutcomes, LineHttpOutcomes) \/ ClientSendsCmd

SpecCmd == InitCmd /\ [][NextCmd]_vars

\* two clients at once: the server after it has accepted two connections,
\* each may send STS or QUIT or be closed by its peer
secondConn == [firstConn EXCEPT !.id = pad(1, IdWidth)]

InitIso ==
  /\ build \in Builds
  /\ connCounter = 2
  /\ conns = <<firstConn, secondConn>>
  /\ events = <<>>
  /\ reqs = <<>>
  /\ stats = count(count(count(count(stats0, "open"), "total"), "open"), "total")
  /\ uncaught = FALSE
  /\ logger = logger0

ClientSendsIso ==
  \E c \in DOMAIN conns, d \in PipeLines :
     Len(events) < MaxIsoEvents /\ onConnData(c, d)

NextIso ==
  \/ ClientSendsIso
  \/ \E c \in DOMAIN conns : onConnClose(c)
  \/ \E r \in DOMAIN reqs, out \in LineDnsOutcomes : DnsReply(r, out)
  \/ \E r \in DOMAIN reqs : RunStages(r)
  \/ \E r \in DOMAIN reqs, out \in LineHttpOutcomes : HttpReply(r, out)
  \/ \E r \in DOMAIN reqs : RunHandler(r)

SpecIso == InitIso /\ [][NextIso]_vars

\* connection ids late in the life of the server: the first connection is
\* still open, the connections accepted after it were closed by their
\* peers, connCounter connections have been accepted so far
IdWrap == 100000000

IdStarts == {1, 10, IdWrap - 1, IdWrap}

InitId ==
  /\ build \in Builds
  /\ connCounter \in IdStarts
  /\ conns = <<firstConn>>
  /\ events = <<>>
  /\ reqs = <<>>
  /\ stats = IF build = "part_002"
             THEN [stats0 EXCEPT !.open = connCounter, !.total = connCounter]
             ELSE stats0
  /\ uncaught = FALSE
  /\ logger = logger0

AcceptId == Len(conns) < MaxIdConns /\ handleConnection

NextId ==
  \/ AcceptId
  \/ \E c \in DOMAIN conns : onConnClose(c)
  \/ \E c \in DOMAIN conns : onConnError(c)

SpecId == InitId /\ [][NextId]_vars

\* the logger by itself: any start level, any call
InitLog ==
  /\ build \in Builds
  /\ connCounter = 0
  /\ conns = <<>>
  /\ events = <<>>
  /\ reqs = <<>>
  /\ stats = stats0
  /\ uncaught = FALSE
  /\ logger \in {[logger0 EXCEPT !.log_level = l] : l \in Levels}

NextLog ==
  \/ \E level \in Levels, msg \in Msgs : Log(level, msg)
  \/ \E lvl \in -1..8 : LogLevel(lvl)

SpecLog == InitLog /\ [][NextLog]_vars

\* ------------------------------------------------- TXT records at large
\* the attribute tokens a TXT record is put together from
T_v       == <<"v","=","S","T","S","v","1">>
T_vMixed  == <<"V","=","s","t","s","V","1">>
T_vOther  == <<"v","=","x">>
T_id      == <<"i","d","=","2","0","1","9","A","B","C">>
T_idUpper == <<"I","D","=","y">>
T_idEq    == <<"i","d","=","a","=","b">>
T_idBare  == <<"i","d">>
T_vBare   == <<"v">>
T_mx      == <<"m","x","=","1">>
T_none    == <<>>

TxtTokens ==
  {T_v, T_vMixed, T_vOther, T_id, T_idUpper, T_idEq, T_idBare, T_vBare, T_mx, T_none}

RECURSIVE joinWith(_, _)
joinWith(a, sep) ==
  IF a = <<>> THEN <<>>
  ELSE IF Len(a) = 1 THEN a[1]
  ELSE a[1] \o <<sep>> \o joinWith(Tail(a), sep)

R_example == << <<"v","=","S","T","S","v","1",";",SP,
                  "i","d","=","2","0","1","9","A","B","C">> >>

\* the records of one chunk made of up to MaxTxtTokens tokens, and two
\* records with white space
TxtRecords ==
  {R_example, R_valid} \cup
  {<<joinWith(ts, ";")>> :
      ts \in UNION {[1..n -> TxtTokens] : n \in 0..MaxTxtTokens}}

\* the server after one connection has sent STS a.co and the resolver has
\* answered with one TXT record
InitTxt ==
  /\ build \in Builds
  /\ connCounter = 1
  /\ conns = <<firstConn>>
  /\ events = <<[conn |-> 1, line |-> L_sts, inHttp |-> {}]>>
  /\ \E rec \in TxtRecords :
       reqs = <<[resolveTxtCallback(getTxt(newOpts(1, 1, tokensOf(L_sts)[2])),
                                    [err |-> FALSE, code |-> "", data |-> <<rec>>])
                  EXCEPT !.dnsOut = "one"]>>
  /\ stats = count(count(count(stats0, "open"), "total"), "STS")
  /\ uncaught = FALSE
  /\ logger = logger0

\* what can happen from there on when no further command is sent
NextTxt ==
  \/ \E c \in DOMAIN conns : onConnClose(c)
  \/ \E c \in DOMAIN conns : onConnError(c)
  \/ \E r \in DOMAIN reqs : RunStages(r)
  \/ \E r \in DOMAIN reqs, out \in LineHttpOutcomes : HttpReply(r, out)
  \/ \E r \in DOMAIN reqs : RunHandler(r)

\* stage 2 on every record, then the rest of the pipeline
SpecTxt == InitTxt /\ [][NextTxt]_vars

\* ------------------------------------------------------------- the claims
\* the writes made in answer to data event e, and their texts
RepliesTo(e) == SelectSeq(conns[events[e].conn].writes, LAMBDA w : w.ev = e)
ReplyMsgs(e) == [i \in DOMAIN RepliesTo(e) |-> RepliesTo(e)[i].msg]

\* the pipelines started by data event e
RequestsOf(e) == {r \in DOMAIN reqs : reqs[r].ev = e}

errorLine(m) == <<"-">> \o m \o <<CR, LF>>
StartsWith(m, ch) == m # <<>> /\ m[1] = ch
EndsWithCRLF(m) == Len(m) >= 2 /\ m[Len(m) - 1] = CR /\ m[Len(m)] = LF

\* neither QUIT, nor an error, nor a close has touched connection c
StaysOpen(c) == ~conns[c].ended /\ ~conns[c].destroyed

\* nothing more will happen for data event e
Handled(e) == \A r \in RequestsOf(e) : reqs[r].pc \in {"done", "hung"}

\* C1: when QUIT is processed while an STS pipeline of the same connection
\* waits on its HTTP GET, nothing is written for that STS command after the
\* QUIT's +BYE, also while end() has been called and destroyed is not yet set.
C1_NoStsReplyAfterQuit ==
  \A e \in DOMAIN events :
    cmdOf(events[e].line) = cmdQUIT =>
      LET w == conns[events[e].conn].writes IN
      \A i, j \in DOMAIN w :
        (w[i].ev = e /\ i < j) => w[j].ev \notin events[e].inHttp

\* C2: every data event on a connection that stays open gets exactly one
\* reply, and the reply begins with + or -.
C2_ExactlyOneReply ==
  \A e \in DOMAIN events :
    /\ Len(RepliesTo(e)) <= 1
    /\ (StaysOpen(events[e].conn) /\ Handled(e)) =>
          /\ Len(RepliesTo(e)) = 1
          /\ \/ StartsWith(ReplyMsgs(e)[1], "+")
             \/ StartsWith(ReplyMsgs(e)[1], "-")

\* C3: a TXT lookup that succeeds with no record or with several records
\* fails the pipeline with EMPTY OR MISSING TXT RECORD, which is the reply;
\* no HTTP GET is issued.
C3_RecordCountFailsPipeline ==
  \A r \in DOMAIN reqs :
    reqs[r].dnsOut \in {"empty", "many"} =>
      /\ reqs[r].http = 0
      /\ reqs[r].pc \in {"fail", "done"}
      /\ reqs[r].err = <<"EMPTY OR MISSING TXT RECORD">>
      /\ (reqs[r].pc = "done" /\ StaysOpen(reqs[r].conn)) =>
            ReplyMsgs(reqs[r].ev) = <<errorLine(<<"EMPTY OR MISSING TXT RECORD">>)>>

\* C4: a lookup error, no record and several records all end in the same
\* reply, -EMPTY OR MISSING TXT RECORD.
C4_SameTxtFailureReply ==
  \A r \in DOMAIN reqs :
    ( /\ reqs[r].dnsOut \in {"err", "empty", "many"}
      /\ reqs[r].pc \in {"done", "hung"}
      /\ StaysOpen(reqs[r].conn) ) =>
        ReplyMsgs(reqs[r].ev) = <<errorLine(<<"EMPTY OR MISSING TXT RECORD">>)>>

\* C5: an STS whose domain has no top-level label, holds an underscore or
\* ends in a dot is answered -HOST INVALID and starts no pipeline; every
\* host handed to the pipeline has a top-level label, no underscore and no
\* trailing dot.
InvalidHostLines == {L_stsNoTld, L_stsUnder, L_stsDot}

C5_InvalidHostRejected ==
  /\ \A e \in DOMAIN events :
       events[e].line \in InvalidHostLines =>
         /\ RequestsOf(e) = {}
         /\ ReplyMsgs(e) = <<errorLine(<<"HOST INVALID">>)>>
  /\ \A r \in DOMAIN reqs :
       LET h == reqs[r].host IN
       /\ h # <<>>
       /\ "." \in Range(h)
       /\ "_" \notin Range(h)
       /\ h[Len(h)] # "."

C5_Witness ==
  \E e \in DOMAIN events :
    /\ events[e].line = L_stsUnder
    /\ Len(RepliesTo(e)) = 1

\* C6: STS without a domain is answered -HOST MISSING whatever white space
\* surrounds the line, and starts no pipeline.
NoArgLines == {L_stsBare, L_stsSp, L_stsSpCrLf, L_stsPadded}

C6_MissingHost ==
  \A e \in DOMAIN events :
    events[e].line \in NoArgLines =>
      /\ RequestsOf(e) = {}
      /\ ReplyMsgs(e) = <<errorLine(<<"HOST MISSING">>)>>

C6_Witness ==
  \E e \in DOMAIN events :
    /\ events[e].line = L_stsSpCrLf
    /\ Len(RepliesTo(e)) = 1

\* C7 as stated: a pipeline is started only by a line with exactly one
\* argument after STS.
C7_ExactlyOneArgument ==
  \A r \in DOMAIN reqs : Len(tokensOf(events[reqs[r].ev].line)) = 2

\* C7 as amended: the first argument alone decides.  A line with further
\* arguments starts a pipeline for the first one when that is a valid
\* domain; the empty first token left by two spaces is answered
\* -HOST INVALID; a pipeline always runs for tokens[1] of an STS line.
C7_FirstArgumentDecides ==
  \A e \in DOMAIN events :
    LET t == tokensOf(events[e].line) IN
    /\ events[e].line = L_stsTwo =>
          \E r \in RequestsOf(e) : reqs[r].host = <<"a", ".", "c", "o">>
    /\ events[e].line = L_stsGap =>
          /\ RequestsOf(e) = {}
          /\ ReplyMsgs(e) = <<errorLine(<<"HOST INVALID">>)>>
    /\ Cardinality(RequestsOf(e)) <= 1
    /\ \A r \in RequestsOf(e) :
          /\ toUpperCase(t[1]) = cmdSTS
          /\ Len(t) >= 2
          /\ reqs[r].host = t[2]

C7_Witness ==
  \E e \in DOMAIN events :
    /\ events[e].line = L_stsTwo
    /\ \E r \in RequestsOf(e) : reqs[r].dns = 1

\* C8: once QUIT is processed, +BYE is written and the connection closed,
\* and no later data event of the connection is dispatched: it gets no
\* reply and starts no pipeline.
C8_NoDispatchAfterQuit ==
  \A e1 \in DOMAIN events :
    cmdOf(events[e1].line) = cmdQUIT =>
      /\ ReplyMsgs(e1) = <<BYE>>
      /\ conns[events[e1].conn].ended
      /\ \A e2 \in DOMAIN events :
           (e1 < e2 /\ events[e2].conn = events[e1].conn) =>
              /\ RepliesTo(e2) = <<>>
              /\ RequestsOf(e2) = {}

\* C9: when the connection is destroyed as getPolicy is entered, no HTTP GET
\* is issued and the pipeline fails with CLIENT CONNECTION CLOSED.
C9_ClosedBeforeGetPolicy ==
  \A r \in DOMAIN reqs :
    reqs[r].closedAt3 =>
      /\ reqs[r].http = 0
      /\ reqs[r].pc \in {"fail", "done"}
      /\ reqs[r].err = <<"CLIENT CONNECTION CLOSED">>

\* C10: the reply of a successful pipeline starts with + and ends with CRLF.
C10_SuccessLineWellFormed ==
  \A r \in DOMAIN reqs :
    reqs[r].settled = "ok" =>
      \A i \in DOMAIN RepliesTo(reqs[r].ev) :
        /\ StartsWith(ReplyMsgs(reqs[r].ev)[i], "+")
        /\ EndsWithCRLF(ReplyMsgs(reqs[r].ev)[i])

\* the HTTP client answered without a transport error and with a response
Responded(o) == o.resp # NoResponse /\ o.resp.err = <<>> /\ o.resp.res
Is2xx(o) == o.resp.status >= 200 /\ o.resp.status < 300

\* body occurs in msg, in order and without a gap
Contains(msg, body) ==
  \E i \in 0..(Len(msg) - Len(body)) : SubSeq(msg, i + 1, i + Len(body)) = body

\* C11: the body of a 2xx response is written to the open connection byte
\* for byte: whatever is written for the command contains the body
\* unchanged, its inner newlines included, and on a connection that is not
\* destroyed exactly one such write is made.
C11_BodyRoundTrip ==
  \A r \in DOMAIN reqs :
    LET o == reqs[r] IN
    (Responded(o) /\ Is2xx(o) /\ o.pc = "done") =>
      /\ \A i \in DOMAIN RepliesTo(o.ev) : Contains(ReplyMsgs(o.ev)[i], o.resp.body)
      /\ ~conns[o.conn].destroyed => Len(RepliesTo(o.ev)) = 1

C11_Witness ==
  \E r \in DOMAIN reqs :
    /\ reqs[r].resp.body = B_plain
    /\ Is2xx(reqs[r])
    /\ reqs[r].pc = "done"
    /\ ReplyMsgs(reqs[r].ev) = <<B_plain>>

\* C12: a 2xx response with an absent or empty body is a success with the
\* empty string as result: it is no failure and no exception leaves the
\* callback.
C12_EmptyBodyIsSuccess ==
  \A r \in DOMAIN reqs :
    LET o == reqs[r] IN
    (Responded(o) /\ Is2xx(o) /\ o.resp.body = <<>>) =>
      /\ o.pc \in {"ok", "done"}
      /\ o.settled # "fail"
      /\ o.escaped = <<>>
      /\ o.body = <<>>

\* C13: after a response without transport error the pipeline succeeds
\* exactly when the status is in [200, 300); for every other status the
\* error reply begins with HTTP LOOKUP FAILED and carries the status code.
C13_StatusDecides ==
  \A r \in DOMAIN reqs :
    LET o == reqs[r] IN
    Responded(o) =>
      /\ (o.pc = "ok" \/ o.settled = "ok") <=> Is2xx(o)
      /\ ~Is2xx(o) =>
           /\ o.err # <<>>
           /\ o.err[1] \in {"HTTP LOOKUP FAILED", "HTTP LOOKUP FAILED; "}
           /\ \E i \in DOMAIN o.err : o.err[i] = ToString(o.resp.status)
           /\ (o.pc = "done" /\ ~conns[o.conn].destroyed) =>
                 ReplyMsgs(o.ev) = <<errorLine(o.err)>>

\* C18: nothing is written to a connection whose destroyed flag is set: a
\* step leaves the writes and the half-close state of every destroyed
\* connection as they were.
C18_NoWriteOnDestroyed ==
  [][\A c \in DOMAIN conns :
        conns[c].destroyed =>
          /\ conns'[c].writes = conns[c].writes
          /\ conns'[c].ended = conns[c].ended]_vars

\* a pipeline succeeded on a connection destroyed before its handler ran
C18_Witness ==
  \E r \in DOMAIN reqs :
    /\ reqs[r].settled = "ok"
    /\ conns[reqs[r].conn].destroyed
    /\ RepliesTo(reqs[r].ev) = <<>>

\* C19: no failure of a pipeline leaves it as an unhandled rejection or as
\* an exception out of a callback: each one reaches the catch handler.
C19_NoFailureEscapes ==
  /\ ~uncaught
  /\ \A r \in DOMAIN reqs :
       /\ reqs[r].unhandled = <<>>
       /\ reqs[r].escaped = <<>>
       /\ reqs[r].pc # "hung"

\* the attribute tokens of the record of pipeline o, and what a token says
tokensIn(o) == split(stripSpace(join(o.txt_rr[1])), ";")
hasEq(t) == \E i \in DOMAIN t : t[i] = "="
nameOf(t) == toLowerCase(split(t, "=")[1])
afterFirstEq(t) ==
  LET i == CHOOSE k \in DOMAIN t : t[k] = "=" /\ \A j \in 1..(k - 1) : t[j] # "="
  IN SubSeq(t, i + 1, Len(t))
equalSigns(t) == Cardinality({i \in DOMAIN t : t[i] = "="})

\* stage 2 has run on a record with text; it let the pipeline go on
Parsed(o) == o.pc \notin {"dns", "txt"} /\ o.txt_rr # <<>> /\ join(o.txt_rr[1]) # <<>>
Validated(o) == o.http > 0 \/ o.closedAt3

acc0 == [hasV |-> FALSE, hasId |-> FALSE, id |-> <<>>, thrown |-> <<>>]

\* C14: validation succeeds exactly when the record has a v token with value
\* stsv1 and an id token with a value; otherwise it fails with INVALID TXT
\* RR, also for an id token without =; 'v=STSv1; id=2019ABC' succeeds with
\* id 2019ABC.
C14_BothAttributesRequired ==
  \A r \in DOMAIN reqs :
    LET o == reqs[r]
        t == tokensIn(o)
        vPresent  == \E i \in DOMAIN t : /\ hasEq(t[i])
                                         /\ nameOf(t[i]) = <<"v">>
                                         /\ toLowerCase(afterFirstEq(t[i])) = stsv1
        idPresent == \E i \in DOMAIN t : hasEq(t[i]) /\ nameOf(t[i]) = <<"i", "d">>
    IN Parsed(o) =>
         /\ Validated(o) <=> (vPresent /\ idPresent)
         /\ ~Validated(o) => o.err = <<"INVALID TXT RR">>
         /\ o.txt_rr = <<R_example>> =>
               /\ Validated(o)
               /\ o.hasV
               /\ o.id = <<"2","0","1","9","A","B","C">>

\* C15: when the last id token has more than one =, the stored id is all of
\* the token after its first =, the later = included: id=a=b stores a=b.
C15_ValueKeepsEqualSigns ==
  \A r \in DOMAIN reqs :
    LET o == reqs[r]
        t == tokensIn(o)
        ids == {i \in DOMAIN t : nameOf(t[i]) = <<"i", "d">>}
    IN (Parsed(o) /\ ids # {}) =>
         LET last == CHOOSE i \in ids : \A j \in ids : j <= i IN
         equalSigns(t[last]) > 1 => o.id = afterFirstEq(t[last])

\* C16: a token without = is skipped: no exception, no flag and no id is
\* set by it, and the outcome is the one of the record without such tokens.
C16_TokenWithoutEqSkipped ==
  \A r \in DOMAIN reqs :
    LET o == reqs[r] IN
    Parsed(o) =>
      LET ref == parseTokens(SelectSeq(tokensIn(o), hasEq), acc0) IN
      /\ o.hasV = ref.hasV
      /\ o.hasId = ref.hasId
      /\ o.id = ref.id
      /\ Validated(o) <=> (ref.hasV /\ ref.hasId)
      /\ o.err # <<"Cannot read property 'toLowerCase' of undefined">>

\* the tokens of t without the name=value tokens that a later name=value
\* token of the same name repeats
lastOnly(t) ==
  LET keep == {i \in DOMAIN t :
                 ~\E j \in DOMAIN t : /\ j > i
                                      /\ hasEq(t[i]) /\ hasEq(t[j])
                                      /\ nameOf(t[j]) = nameOf(t[i])
                                      /\ nameOf(t[i]) \in {<<"v">>, <<"i", "d">>}}
      F[i \in 0..Len(t)] ==
        IF i = 0 THEN <<>>
        ELSE IF i \in keep THEN Append(F[i - 1], t[i]) ELSE F[i - 1]
  IN F[Len(t)]

\* C17: of a repeated v or id only the rightmost occurrence counts: the
\* record is treated like the one without the earlier occurrences, so that
\* v=STSv1;v=other;id=x is treated like v=other;id=x.
C17_RightmostOccurrenceDecides ==
  \A r \in DOMAIN reqs :
    LET o == reqs[r] IN
    Parsed(o) =>
      LET ref == parseTokens(lastOnly(tokensIn(o)), acc0) IN
      /\ o.hasV = ref.hasV
      /\ o.hasId = ref.hasId
      /\ o.id = ref.id
      /\ Validated(o) <=> (ref.thrown = <<>> /\ ref.hasV /\ ref.hasId)

\* the lines whose first token is no command of the build
UnknownLines ==
  {L_foo, L_empty} \cup (IF build = "server.js" THEN {L_stats} ELSE {})

\* C20: an unknown command or an empty line is answered -UNKNOWN COMMAND
\* and starts no pipeline; it does not end the connection, and a VERSION or
\* STS command that follows on the connection is dispatched and answered.
C20_UnknownCommand ==
  \A e \in DOMAIN events :
    LET c == events[e].conn IN
    events[e].line \in UnknownLines =>
      /\ RequestsOf(e) = {}
      /\ ReplyMsgs(e) = <<errorLine(<<"UNKNOWN COMMAND">>)>>
      /\ conns[c].ended =>
           \/ conns[c].errs > 0
           \/ \E q \in DOMAIN events :
                events[q].conn = c /\ cmdOf(events[q].line) = cmdQUIT
      /\ \A e2 \in DOMAIN events :
           (e < e2 /\ events[e2].conn = c) =>
             /\ events[e2].line = L_version =>
                   ReplyMsgs(e2) = << <<"+">> \o version \o <<CR, LF>> >>
             /\ events[e2].line = L_sts =>
                   /\ Cardinality(RequestsOf(e2)) = 1
                   /\ \A r \in RequestsOf(e2) :
                        (reqs[r].pc = "done" /\ ~conns[c].destroyed) =>
                           Len(RepliesTo(e2)) = 1

C20_Witness ==
  \E e1, e2 \in DOMAIN events :
    /\ e1 < e2
    /\ events[e1].conn = events[e2].conn
    /\ events[e1].line = L_empty
    /\ events[e2].line = L_sts
    /\ ReplyMsgs(e1) = <<errorLine(<<"UNKNOWN COMMAND">>)>>
    /\ ReplyMsgs(e2) = <<B_crlf>>
    /\ ~conns[events[e1].conn].ended

VersionLines == {L_version, L_versionUpper, L_versionMixed}

\* C21: a VERSION command, in any letter case, is answered +<version> CRLF
\* by the handler of its data event (the reply is there in every state that
\* has the event) and starts no DNS query and no HTTP GET.
C21_VersionSynchronous ==
  \A e \in DOMAIN events :
    events[e].line \in VersionLines =>
      /\ ReplyMsgs(e) = << <<"+", "0.1", CR, LF>> >>
      /\ RequestsOf(e) = {}

\* VERSION in mixed case answered while an STS of the connection waits for
\* its DNS answer
C21_Witness ==
  \E e1, e2 \in DOMAIN events :
    /\ e1 < e2
    /\ events[e1].conn = events[e2].conn
    /\ events[e1].line = L_sts
    /\ events[e2].line = L_versionMixed
    /\ \E r \in RequestsOf(e1) : reqs[r].pc = "dns"
    /\ Len(RepliesTo(e2)) = 1

\* where in the writes of its connection the reply to data event e is
replyIndex(e) ==
  LET w == conns[events[e].conn].writes IN CHOOSE i \in DOMAIN w : w[i].ev = e

\* two answered STS commands of one connection that is still open, e1
\* received before e2
AnsweredPair(e1, e2) ==
  /\ e1 < e2
  /\ events[e1].conn = events[e2].conn
  /\ RequestsOf(e1) # {} /\ RequestsOf(e2) # {}
  /\ RepliesTo(e1) # <<>> /\ RepliesTo(e2) # <<>>
  /\ StaysOpen(events[e1].conn)

\* C22 as stated: the replies to two STS commands of a connection are
\* written in the order in which the commands were received.
C22_RepliesInCommandOrder ==
  \A e1, e2 \in DOMAIN events :
    AnsweredPair(e1, e2) => replyIndex(e1) < replyIndex(e2)

\* C22 as amended: commands are dispatched in the order received, and a
\* reply is appended behind all earlier writes of its connection in the step
\* that produces it: the step that dispatches its command, or the step in
\* which the final handler of its pipeline runs.
C22_RepliesInCompletionOrder ==
  [][\A c \in DOMAIN conns :
       LET w == conns[c].writes
           v == conns'[c].writes
       IN \/ v = w
          \/ /\ Len(v) = Len(w) + 1
             /\ SubSeq(v, 1, Len(w)) = w
             /\ LET e == v[Len(v)].ev IN
                \/ e = 0
                \/ e = Len(events') /\ Len(events') = Len(events) + 1
                \/ \E r \in DOMAIN reqs :
                     /\ reqs[r].ev = e
                     /\ reqs[r].pc # "done"
                     /\ reqs'[r].pc = "done"]_vars

\* the second STS command answered first
C22_Witness ==
  \E e1, e2 \in DOMAIN events :
    AnsweredPair(e1, e2) /\ replyIndex(e2) < replyIndex(e1)

\* the promise chain of a pipeline in one of these states runs nothing more
\* but, at most, its final handler
Failed(o) == o.pc \in {"fail", "hung"} \/ o.settled = "fail"

\* the messages of the failures of stage 2
TxtFailures ==
  {<<"INVALID TXT RR">>, <<"EMPTY OR MISSING TXT RECORD">>,
   <<"Cannot read property 'toLowerCase' of undefined">>}

\* C23: a failure is final for its request: an STS command has at most one
\* pipeline, a pipeline issues at most one DNS query and at most one HTTP
\* GET, a failure of the lookup or of the validation is followed by no HTTP
\* GET, and a step never issues a query or a GET for a pipeline that failed.
C23_NoRetry ==
  /\ [](/\ \A e \in DOMAIN events : Cardinality(RequestsOf(e)) <= 1
        /\ \A r \in DOMAIN reqs :
             /\ reqs[r].dns <= 1
             /\ reqs[r].http <= 1
             /\ reqs[r].dnsOut \in {"err", "empty", "many"} =>
                  reqs[r].http = 0 /\ ~reqs[r].hasV /\ ~reqs[r].hasId
             /\ reqs[r].err \in TxtFailures => reqs[r].http = 0)
  /\ [][\A r \in DOMAIN reqs :
          Failed(reqs[r]) =>
            /\ Failed(reqs'[r])
            /\ reqs'[r].dns = reqs[r].dns
            /\ reqs'[r].http = reqs[r].http
            /\ reqs'[r].err = reqs[r].err]_vars

\* a lookup error reported, after one query and no GET
C23_Witness ==
  \E r \in DOMAIN reqs :
    /\ reqs[r].dnsOut = "err"
    /\ reqs[r].settled = "fail"
    /\ reqs[r].dns = 1
    /\ reqs[r].http = 0
    /\ Len(RepliesTo(reqs[r].ev)) = 1

\* C24: the handler of an 'error' event writes +BYE and ends the connection
\* when the connection is not destroyed, and only then: on a destroyed
\* connection it writes nothing and changes nothing (errs only counts the
\* events).
C24_ErrorHandler ==
  [][\A c \in DOMAIN conns :
       conns'[c].errs # conns[c].errs =>
         IF conns[c].destroyed
         THEN /\ conns' = [conns EXCEPT ![c].errs = @ + 1]
              /\ UNCHANGED <<build, connCounter, events, reqs, stats, uncaught, logger>>
         ELSE /\ conns'[c].ended
              /\ ~conns'[c].destroyed
              /\ conns'[c].writes =
                   Append(conns[c].writes,
                          [ev |-> 0, msg |-> <<"+", "BYE", CR, LF>>,
                           afterEnd |-> conns[c].ended])
              /\ UNCHANGED <<events, reqs>>]_vars

\* an 'error' event on a destroyed connection that never wrote anything
C24_Witness ==
  \E c \in DOMAIN conns :
    conns[c].errs > 0 /\ conns[c].destroyed /\ conns[c].writes = <<>>

\* how many connections were accepted before connection c (under SpecId the
\* first connection is followed by the ones accepted last)
acceptIndex(c) == IF c = 1 THEN 0 ELSE connCounter - Len(conns) + c - 1

\* the number an id spells
RECURSIVE idValue(_)
idValue(id) ==
  IF id = <<>> THEN 0
  ELSE 10 * idValue(SubSeq(id, 1, Len(id) - 1))
       + (CHOOSE d \in 0..9 : ToString(d) = id[Len(id)])

\* C25: the connection accepted as the k-th (k >= 0) has the 8 character
\* zero padded decimal string of k as its id, ids grow in accept order and
\* no two connections have the same id.
C25_IdsUniqueIncreasing ==
  /\ \A c \in DOMAIN conns :
       /\ Len(conns[c].id) = 8
       /\ idValue(conns[c].id) = acceptIndex(c)
  /\ \A c1, c2 \in DOMAIN conns :
       c1 < c2 => /\ conns[c1].id # conns[c2].id
                  /\ idValue(conns[c1].id) < idValue(conns[c2].id)

RequestCounters == {"STS", "QUIT", "VERSION", "STATS", "bad"}

\* the request counter that the upper-cased command token of a line names
counterOf(line) ==
  LET cmd == cmdOf(line) IN
  IF cmd = <<"S","T","S">> THEN "STS"
  ELSE IF cmd = <<"Q","U","I","T">> THEN "QUIT"
  ELSE IF cmd = <<"V","E","R","S","I","O","N">> THEN "VERSION"
  ELSE IF cmd = <<"S","T","A","T","S">> THEN "STATS"
  ELSE "bad"

\* C26: in the build that has the counters, each request counter equals the
\* number of data events dispatched so far whose command token names it: a
\* data event adds 1 to that counter and nothing to the other four, also
\* when its STS is answered HOST MISSING or HOST INVALID.
C26_OneCounterPerEvent ==
  build = "part_002" =>
    \A k \in RequestCounters :
      stats[k] = Cardinality({e \in DOMAIN events : counterOf(events[e].line) = k})

\* an STS with an invalid host, counted as STS
C26_Witness ==
  /\ build = "part_002"
  /\ \E e \in DOMAIN events :
       /\ events[e].line = L_stsNoTld
       /\ ReplyMsgs(e) = <<errorLine(<<"HOST INVALID">>)>>
  /\ stats.STS = 1
  /\ stats.bad = 0

\* C28: an HTTP GET is issued only after the lookup returned one record
\* and the validation succeeded; a stage that fails ends the pipeline, and
\* the message of that first failure is what the client is told.
C28_StagesInOrder ==
  \A r \in DOMAIN reqs :
    LET o == reqs[r] IN
    /\ o.http > 0 => (o.dnsOut = "one" /\ o.hasV /\ o.hasId)
    /\ o.dnsOut \in {"err", "empty", "many"} =>
         /\ o.http = 0
         /\ o.pc \in {"fail", "done"}
         /\ o.err # <<>>
    /\ o.dnsOut \in {"empty", "many"} => o.err = <<"EMPTY OR MISSING TXT RECORD">>
    /\ (o.resp # NoResponse /\ ~(Responded(o) /\ Is2xx(o))) =>
         /\ o.pc \in {"fail", "done"}
         /\ o.err # <<>>
    /\ (o.settled = "fail" /\ StaysOpen(o.conn)) =>
         ReplyMsgs(o.ev) = <<errorLine(o.err)>>

\* C29: once the callbacks a pipeline waits for have fired, its chain is
\* settled or has a handler queued: it is never left pending with nothing
\* that could settle it.
C29_NeverPendingForever ==
  \A r \in DOMAIN reqs :
    LET o == reqs[r] IN
    (o.dnsOut # "none" /\ (o.http = 0 \/ o.resp # NoResponse)) =>
       o.pc \in {"txt", "ok", "fail", "done"}

\* C30: a data event is one command: it gets at most one reply and starts at
\* most one pipeline, and of the chunk VERSION CRLF QUIT CRLF neither line is
\* executed: the chunk as a whole is an unknown command, the connection is
\* not ended by it.
C30_OneCommandPerChunk ==
  /\ \A e \in DOMAIN events :
       /\ Len(RepliesTo(e)) <= 1
       /\ Cardinality(RequestsOf(e)) <= 1
       /\ events[e].line = L_two =>
            /\ ReplyMsgs(e) = <<errorLine(<<"UNKNOWN COMMAND">>)>>
            /\ RequestsOf(e) = {}
  /\ \A c \in DOMAIN conns :
       (conns[c].ended /\ conns[c].errs = 0) =>
          \E e \in DOMAIN events :
            events[e].conn = c /\ events[e].line \in {L_quit}
  /\ build = "part_002" =>
       stats.STS + stats.QUIT + stats.VERSION + stats.STATS + stats.bad = Len(events)

C30_Witness ==
  \E e \in DOMAIN events :
    /\ events[e].line = L_two
    /\ Len(RepliesTo(e)) = 1
    /\ ~conns[events[e].conn].ended

\* the accepted connections on which neither a QUIT nor a transport error has
\* begun the close and which the peer has not torn down
StillOpen == {c \in DOMAIN conns : ~conns[c].ended /\ ~conns[c].destroyed}

\* C31: stats.connections.open is the number of accepted connections that
\* are not yet closed; it is never negative and never above
\* stats.connections.total.
C31_OpenCounter ==
  build = "part_002" =>
    /\ stats.open = Cardinality(StillOpen)
    /\ 0 <= stats.open
    /\ stats.open <= stats.total

\* a QUIT or a close touches connection c in this step
ClosingStep(c) ==
  \/ conns'[c].ended # conns[c].ended
  \/ conns'[c].destroyed # conns[c].destroyed

\* the pipelines running for connections other than c
RequestsOfOthers(c) == {r \in DOMAIN reqs : reqs[r].conn # c}

\* C32: connection isolation.  Every reply is written to the connection
\* whose data event it answers and every pipeline holds the connection that
\* issued its command; a pipeline that has finished for a connection not
\* torn down has written its one reply there, the policy or the line of its
\* own failure, whatever happened to the other connections; and a step that
\* QUITs or closes one connection leaves the other connections and
\* the pipelines running for them as they were.
C32_ConnectionIsolation ==
  /\ [](/\ \A c \in DOMAIN conns : \A i \in DOMAIN conns[c].writes :
             conns[c].writes[i].ev > 0 => events[conns[c].writes[i].ev].conn = c
        /\ \A r \in DOMAIN reqs :
             LET o == reqs[r] IN
             /\ o.conn = events[o.ev].conn
             /\ (o.pc = "done" /\ ~conns[o.conn].destroyed) =>
                  ReplyMsgs(o.ev) = <<IF o.settled = "ok" THEN o.body
                                      ELSE errorLine(o.err)>>)
  /\ [][\A c \in DOMAIN conns :
          ClosingStep(c) =>
            /\ \A d \in DOMAIN conns \ {c} : conns'[d] = conns[d]
            /\ \A r \in RequestsOfOthers(c) : reqs'[r] = reqs[r]]_vars

\* a policy was sent to the connection that asked for it although the other
\* connection, whose QUIT came after that STS command, is closed
C32_Witness ==
  \E r \in DOMAIN reqs, q \in DOMAIN events :
    /\ reqs[r].pc = "done" /\ reqs[r].settled = "ok"
    /\ ReplyMsgs(reqs[r].ev) = <<reqs[r].body>>
    /\ events[q].conn # reqs[r].conn
    /\ events[q].line = L_quit
    /\ q > reqs[r].ev
    /\ conns[events[q].conn].destroyed

=============================================================================
